---- MODULE Spec2Model ----
(***************************************************************************)
(* Office Online integration module (webapp-integrations-office-online.js) *)
(* as a state machine.                                                     *)
(*                                                                         *)
(* The module is a Box.Application (T3) module: the framework creates it,  *)
(* calls init() once, and later calls destroy() once.  Between the two the *)
(* browser may dispatch any number of window 'message' events; the DOM     *)
(* service calls receiveEventFromOfficeOnline for each one while the       *)
(* subscription is in place.  JavaScript runs every handler to completion, *)
(* so each handler is one action.                                          *)
(*                                                                         *)
(* Every call the module makes on a collaborator (performance, logger,     *)
(* DOM, the frame's window, the parent document) is appended, in program   *)
(* order, to the variable trace.                                           *)
(***************************************************************************)
EXTENDS Integers, Sequences, FiniteSets, TLC

\* ------------------------------------------------------------------------
\* Constants of the source
\* ------------------------------------------------------------------------
APP_LOADING_STATUS_MESSAGE_ID == "App_LoadingStatus"
POST_MESSAGE_READY_MESSAGE_ID == "Host_PostmessageReady"
FILE_RENAME_MESSAGE_ID == "File_Rename"
IFRAME_LOAD_TIME_EVENT == "IFRAME_LOAD_TIME"
EDITOR_LOAD_TIME_EVENT == "EDITOR_LOAD_TIME"
FRAME_HOLDER_CLASS == "office-online-frame-holder"
EDITOR_IFRAME_NAME == "office-editor"
EDITOR_IFRAME_CLASS == "office-editor-frame"
OFFICE_ONLINE_CATEGORY_NAME == "office_online"
\* One symbol of the URL alphabet stands for the whole parameter name.
DISABLE_SAME_ORIGIN_KEY == <<"disableAllowSameOrigin">>
\* loadTime >= 10000
SlowThreshold ==
  10000

\* ------------------------------------------------------------------------
\* Bounds of the model
\* ------------------------------------------------------------------------
\* Number of window 'message' events the browser dispatches in a behaviour.
MaxMsgs ==
  2
\* Longest page URL (in symbols of UrlAlphabet) of the frame specification.
MaxUrlLen ==
  4

\* ------------------------------------------------------------------------
\* JavaScript values
\* ------------------------------------------------------------------------
JUndefined == [ty |-> "undefined"]
JNull == [ty |-> "null"]
JString(s) == [ty |-> "string", s |-> s]
\* A number is kept as its decimal text; the module never computes with one
\* that came from a message.
JNumber(s) == [ty |-> "number", s |-> s]
\* An object is the sequence of its own properties in insertion order.
JObject(props) == [ty |-> "object", props |-> props]
Prop(key, val) == [key |-> key, val |-> val]

\* ToBoolean, as used by `if (x)` and `x && ...`
ToBoolean(v) ==
  CASE v.ty = "undefined" -> FALSE
    [] v.ty = "null" -> FALSE
    [] v.ty = "string" -> v.s # ""
    [] v.ty = "number" -> v.s # "0"
    [] OTHER -> TRUE

\* ToString, as used by string concatenation with +
JSToString(v) ==
  CASE v.ty = "undefined" -> "undefined"
    [] v.ty = "null" -> "null"
    [] v.ty = "string" -> v.s
    [] v.ty = "number" -> v.s
    [] OTHER -> "[object Object]"

\* v.key cannot be evaluated: v is undefined or null (TypeError).
GetThrows(v) == v.ty \in {"undefined", "null"}

\* v.key, for v that is neither undefined nor null.
Get(v, key) ==
  IF v.ty = "object" /\ \E i \in 1..Len(v.props) : v.props[i].key = key
  THEN v.props[CHOOSE i \in 1..Len(v.props) : v.props[i].key = key].val
  ELSE JUndefined

\* a === b for a string b
StrictEqualsString(a, str) == a.ty = "string" /\ a.s = str

\* Setting a property: an existing key keeps its place and takes the new
\* value, a new key goes last.
SetProp(props, key, val) ==
  IF \E i \in 1..Len(props) : props[i].key = key
  THEN [i \in 1..Len(props) |->
          IF props[i].key = key THEN Prop(key, val) ELSE props[i]]
  ELSE Append(props, Prop(key, val))

\* ------------------------------------------------------------------------
\* JSON text.  A text is a sequence of lexical tokens; the token "bad" is
\* any run of characters that is no JSON token.
\* ------------------------------------------------------------------------
Tok(k) == [k |-> k, s |-> ""]
TStr(s) == [k |-> "str", s |-> s]
TNum(s) == [k |-> "num", s |-> s]

ParseFail == [ok |-> FALSE, v |-> JUndefined, next |-> 0]
ParseOk(v, next) == [ok |-> TRUE, v |-> v, next |-> next]

RECURSIVE ParseValue(_, _)
RECURSIVE ParseMembers(_, _, _)

\* value ::= null | number | string | object, read from toks[i]
ParseValue(toks, i) ==
  IF i > Len(toks) THEN ParseFail
  ELSE CASE toks[i].k = "null" -> ParseOk(JNull, i + 1)
         [] toks[i].k = "num" -> ParseOk(JNumber(toks[i].s), i + 1)
         [] toks[i].k = "str" -> ParseOk(JString(toks[i].s), i + 1)
         [] toks[i].k = "{" ->
              IF i + 1 <= Len(toks) /\ toks[i + 1].k = "}"
              THEN ParseOk(JObject(<<>>), i + 2)
              ELSE ParseMembers(toks, i + 1, <<>>)
         [] OTHER -> ParseFail

\* members ::= string ":" value ( "," members | "}" ), read from toks[i]
ParseMembers(toks, i, props) ==
  IF ~(i + 1 <= Len(toks) /\ toks[i].k = "str" /\ toks[i + 1].k = ":")
  THEN ParseFail
  ELSE LET r == ParseValue(toks, i + 2) IN
       IF ~r.ok \/ r.next > Len(toks) THEN ParseFail
       ELSE LET props2 == SetProp(props, toks[i].s, r.v) IN
            CASE toks[r.next].k = "," -> ParseMembers(toks, r.next + 1, props2)
              [] toks[r.next].k = "}" -> ParseOk(JObject(props2), r.next + 1)
              [] OTHER -> ParseFail

\* JSON.parse(text): the value, or a SyntaxError
JSONparse(toks) ==
  LET r == ParseValue(toks, 1) IN
  IF r.ok /\ r.next = Len(toks) + 1
  THEN [threw |-> FALSE, v |-> r.v]
  ELSE [threw |-> TRUE, v |-> JUndefined]

RECURSIVE JSONstringify(_)
RECURSIVE StringifyProps(_, _)

\* JSON.stringify(value) for the values the module builds
JSONstringify(v) ==
  CASE v.ty = "null" -> <<Tok("null")>>
    [] v.ty = "number" -> <<TNum(v.s)>>
    [] v.ty = "string" -> <<TStr(v.s)>>
    [] v.ty = "object" -> <<Tok("{")>> \o StringifyProps(v.props, 1) \o <<Tok("}")>>
    [] OTHER -> <<>>

\* Properties whose value is undefined are left out.
StringifyProps(props, i) ==
  IF i > Len(props) THEN <<>>
  ELSE LET rest == StringifyProps(props, i + 1)
           here == <<TStr(props[i].key), Tok(":")>> \o JSONstringify(props[i].val)
       IN IF props[i].val.ty = "undefined" THEN rest
          ELSE IF rest = <<>> THEN here
          ELSE here \o <<Tok(",")>> \o rest

\* ------------------------------------------------------------------------
\* The page URL.  A URL is a sequence of symbols: the delimiters ? & # =,
\* the character +, a well-formed escape %44, a % that starts no escape,
\* the letter x (any other character, not a hexadecimal digit) and the
\* parameter name.
\* ------------------------------------------------------------------------
UrlAlphabet == {"?", "&", "#", "=", "+", "%", "%44", "x", "disableAllowSameOrigin"}

\* A string of URL symbols as a JavaScript value.
JChars(c) == [ty |-> "chars", c |-> c]

\* if (x) for the results of getParameterByName: null and '' are falsy.
Truthy(v) == IF v.ty = "chars" THEN v.c # <<>> ELSE ToBoolean(v)

\* '[?&]' + name + '(=([^&#]*)|&|#|$)' matches url starting at index i.
RegexMatchesAt(name, url, i) ==
  LET j == i + Len(name) + 1 IN
  /\ i <= Len(url)
  /\ url[i] \in {"?", "&"}
  /\ j - 1 <= Len(url)
  /\ SubSeq(url, i + 1, j - 1) = name
  /\ (j > Len(url) \/ url[j] \in {"=", "&", "#"})

RECURSIVE RegexExec(_, _, _)
\* regex.exec(url): index of the leftmost match at or after i, 0 for no match
RegexExec(name, url, i) ==
  IF i > Len(url) THEN 0
  ELSE IF RegexMatchesAt(name, url, i) THEN i
  ELSE RegexExec(name, url, i + 1)

RECURSIVE RunEnd(_, _)
\* [^&#]* from index i: index of the last character of the greedy run
RunEnd(url, i) ==
  IF i > Len(url) \/ url[i] \in {"&", "#"} THEN i - 1 ELSE RunEnd(url, i + 1)

\* results[2] of the match at index i: the captured value, undefined when
\* the alternative taken was not '=([^&#]*)'
Group2(name, url, i) ==
  LET j == i + Len(name) + 1 IN
  IF j <= Len(url) /\ url[j] = "="
  THEN JChars(SubSeq(url, j + 1, RunEnd(url, j + 1)))
  ELSE JUndefined

\* s.replace(/\+/g, ' ')
ReplacePlus(s) == [i \in 1..Len(s) |-> IF s[i] = "+" THEN " " ELSE s[i]]

RECURSIVE decodeURIComponent(_)
\* decodeURIComponent(s): %44 is 'D'; a % that two hexadecimal digits do not
\* follow is a URIError (no symbol of the alphabet begins with two of them).
decodeURIComponent(s) ==
  IF s = <<>> THEN [threw |-> FALSE, c |-> <<>>]
  ELSE IF s[1] = "%" THEN [threw |-> TRUE, c |-> <<>>]
  ELSE LET r == decodeURIComponent(Tail(s)) IN
       [threw |-> r.threw, c |-> <<IF s[1] = "%44" THEN "D" ELSE s[1]>> \o r.c]

\* getParameterByName(name, url).  The name holds no [ or ], so the
\* escaping replace on it changes nothing.
getParameterByName(name, url) ==
  LET i == RegexExec(name, url, 1)
      g == Group2(name, url, i)
  IN IF i = 0 THEN [threw |-> FALSE, v |-> JNull]
     ELSE IF ~Truthy(g) THEN [threw |-> FALSE, v |-> JChars(<<>>)]
     ELSE LET d == decodeURIComponent(ReplacePlus(g.c)) IN
          [threw |-> d.threw, v |-> JChars(d.c)]

SandboxRestricted ==
  <<"allow-scripts", "allow-forms", "allow-popups", "allow-top-navigation",
    "allow-popups-to-escape-sandbox", "allow-downloads">>
SandboxSameOrigin ==
  <<"allow-scripts", "allow-same-origin", "allow-forms", "allow-popups",
    "allow-top-navigation", "allow-popups-to-escape-sandbox", "allow-downloads">>

\* The frame built with the given sandbox attribute (a space separated list,
\* kept as the sequence of its tokens).
FrameElement(sandbox) ==
  [name |-> EDITOR_IFRAME_NAME, className |-> EDITOR_IFRAME_CLASS,
   allowfullscreen |-> "true", allow |-> "microphone",
   src |-> "invocationUrl", sandbox |-> sandbox]

\* getOfficeEditorFrameElement testing the parameter for presence (!== null)
getOfficeEditorFrameElement_presence(href) ==
  LET disableAllowSameOrigin == getParameterByName(DISABLE_SAME_ORIGIN_KEY, href) IN
  IF disableAllowSameOrigin.threw
  THEN [threw |-> TRUE, frame |-> FrameElement(<<>>)]
  ELSE IF disableAllowSameOrigin.v.ty # "null"
  THEN [threw |-> FALSE, frame |-> FrameElement(SandboxRestricted)]
  ELSE [threw |-> FALSE, frame |-> FrameElement(SandboxSameOrigin)]

\* getOfficeEditorFrameElement() on a page whose location.href is href
getOfficeEditorFrameElement(href) ==
  LET disableAllowSameOrigin == getParameterByName(DISABLE_SAME_ORIGIN_KEY, href) IN
  IF disableAllowSameOrigin.threw
  THEN [threw |-> TRUE, frame |-> FrameElement(<<>>)]
  ELSE IF Truthy(disableAllowSameOrigin.v)
  THEN [threw |-> FALSE, frame |-> FrameElement(SandboxRestricted)]
  ELSE [threw |-> FALSE, frame |-> FrameElement(SandboxSameOrigin)]

\* ------------------------------------------------------------------------
\* Calls on collaborators, as recorded in trace
\* ------------------------------------------------------------------------
Now(v) == [op |-> "performance.now", value |-> v]
SendLog(category, type, params) ==
  [op |-> "sendLog", category |-> category, type |-> type, params |-> params]
AppendChild(frame) == [op |-> "appendChild", frame |-> frame]
Submit == [op |-> "submit"]
On == [op |-> "on"]
Off == [op |-> "off"]
PostMessage(message, targetOrigin) ==
  [op |-> "postMessage", message |-> message, targetOrigin |-> targetOrigin]
SetTitle(value) == [op |-> "title", value |-> value]
Throw(error) == [op |-> "throw", error |-> error]
\* The browser dispatches a 'message' event on the window.
Dispatch == [op |-> "dispatch"]
\* The DOM service calls the subscribed handler with the event.
Invoke(event) == [op |-> "invoke", event |-> event]

\* The calls ended in an uncaught exception.
Threw(calls) == calls # <<>> /\ calls[Len(calls)].op = "throw"
\* Statement sequencing: what follows a throw does not run.
Then(first, second) == IF Threw(first) THEN first ELSE first \o second

\* ------------------------------------------------------------------------
\* The module's functions
\* ------------------------------------------------------------------------

\* logLoadTime with the slow record sent only above the threshold
logLoadTime_gt(eventName, now, startTs, config) ==
  LET loadTime == now - startTs
      params == [event_name |-> eventName,
                 load_time |-> loadTime,
                 service_id |-> config.serviceId,
                 office_online_app_type |-> config.officeOnlineAppType]
  IN <<Now(now), SendLog(OFFICE_ONLINE_CATEGORY_NAME, "perf", params)>>
     \o IF loadTime > SlowThreshold
        THEN <<SendLog(OFFICE_ONLINE_CATEGORY_NAME, "perf",
                       [params EXCEPT !.event_name = @ \o "_slow"])>>
        ELSE <<>>

\* logLoadTime with the operands of the subtraction exchanged
logLoadTime_swapped(eventName, now, startTs, config) ==
  LET loadTime == startTs - now
      params == [event_name |-> eventName,
                 load_time |-> loadTime,
                 service_id |-> config.serviceId,
                 office_online_app_type |-> config.officeOnlineAppType]
  IN <<Now(now), SendLog(OFFICE_ONLINE_CATEGORY_NAME, "perf", params)>>
     \o IF loadTime >= SlowThreshold
        THEN <<SendLog(OFFICE_ONLINE_CATEGORY_NAME, "perf",
                       [params EXCEPT !.event_name = @ \o "_slow"])>>
        ELSE <<>>

\* logLoadTime(eventName), with performance.now() returning now.  params is
\* recorded as it is at each call of sendLog.
logLoadTime(eventName, now, startTs, config) ==
  LET loadTime == now - startTs
      eventType == "perf"
      params == [event_name |-> eventName,
                 load_time |-> loadTime,
                 service_id |-> config.serviceId,
                 office_online_app_type |-> config.officeOnlineAppType]
  IN <<Now(now), SendLog(OFFICE_ONLINE_CATEGORY_NAME, eventType, params)>>
     \o IF loadTime >= SlowThreshold
        THEN <<SendLog(OFFICE_ONLINE_CATEGORY_NAME, eventType,
                       [params EXCEPT !.event_name = @ \o "_slow"])>>
        ELSE <<>>

\* getCurrentTimestamp(): the wall clock, read at the instant now
getCurrentTimestamp(now) == JNumber(ToString(now))

\* publishMessage posting to any origin
publishMessage_anyOrigin(message, config, frames) ==
  IF frames = <<>>
  THEN <<Throw("TypeError")>>
  ELSE <<PostMessage(JSONstringify(message), "*")>>

\* publishMessage(message); frames is what the container holds
publishMessage(message, config, frames) ==
  IF frames = <<>>
  THEN <<Throw("TypeError")>>
  ELSE <<PostMessage(JSONstringify(message), config.origin)>>

\* publishReadyMessage()
publishReadyMessage(now, config, frames) ==
  publishMessage(JObject(<<Prop("MessageId", JString(POST_MESSAGE_READY_MESSAGE_ID)),
                           Prop("SendTime", getCurrentTimestamp(now)),
                           Prop("Values", JObject(<<>>))>>),
                 config, frames)

\* $t('%1 on %2', key, a, b) with the default (untranslated) template
t(a, b) == a \o " on " \o b

\* The first if of receiveEventFromOfficeOnline
onAppLoadingStatus(data, now, startTs, config, frames) ==
  IF ToBoolean(data) /\ StrictEqualsString(Get(data, "MessageId"), APP_LOADING_STATUS_MESSAGE_ID)
  THEN Then(logLoadTime(EDITOR_LOAD_TIME_EVENT, now, startTs, config),
            publishReadyMessage(now, config, frames))
  ELSE <<>>

\* The second if written as the else of the first
onFileRename_else(data, config) ==
  IF ToBoolean(data) /\ ~StrictEqualsString(Get(data, "MessageId"), APP_LOADING_STATUS_MESSAGE_ID)
  THEN LET msgValue == Get(data, "Values") IN
       IF GetThrows(msgValue) THEN <<Throw("TypeError")>>
       ELSE <<SetTitle(t(JSToString(Get(msgValue, "NewName")) \o "." \o config.fileExtension,
                         config.titleWithNoFilename))>>
  ELSE <<>>

\* The second if with the file extension left off the new name
onFileRename_noExtension(data, config) ==
  IF ToBoolean(data) /\ StrictEqualsString(Get(data, "MessageId"), FILE_RENAME_MESSAGE_ID)
  THEN LET msgValue == Get(data, "Values") IN
       IF GetThrows(msgValue) THEN <<Throw("TypeError")>>
       ELSE <<SetTitle(t(JSToString(Get(msgValue, "NewName")), config.titleWithNoFilename))>>
  ELSE <<>>

\* The second if of receiveEventFromOfficeOnline
onFileRename(data, config) ==
  IF ToBoolean(data) /\ StrictEqualsString(Get(data, "MessageId"), FILE_RENAME_MESSAGE_ID)
  THEN LET msgValue == Get(data, "Values") IN
       IF GetThrows(msgValue) THEN <<Throw("TypeError")>>
       ELSE LET newName == JSToString(Get(msgValue, "NewName")) \o "." \o config.fileExtension
                newTitle == t(newName, config.titleWithNoFilename)
            IN <<SetTitle(newTitle)>>
  ELSE <<>>

\* event.originalEvent.data is undefined or a text
NoData == JUndefined
JText(toks) == [ty |-> "text", toks |-> toks]
DataTruthy(data) == data.ty = "text" /\ data.toks # <<>>

\* receiveEventFromOfficeOnline with JSON.parse wrapped in try/catch
receiveEventFromOfficeOnline_catch(event, now, startTs, config, frames) ==
  IF DataTruthy(event.data)
  THEN LET parsed == JSONparse(event.data.toks) IN
       IF parsed.threw THEN <<>>
       ELSE Then(onAppLoadingStatus(parsed.v, now, startTs, config, frames),
                 onFileRename(parsed.v, config))
  ELSE <<>>

\* receiveEventFromOfficeOnline ignoring senders other than config.origin
receiveEventFromOfficeOnline_originCheck(event, now, startTs, config, frames) ==
  IF event.origin = config.origin /\ DataTruthy(event.data)
  THEN LET parsed == JSONparse(event.data.toks) IN
       IF parsed.threw THEN <<Throw("SyntaxError")>>
       ELSE Then(onAppLoadingStatus(parsed.v, now, startTs, config, frames),
                 onFileRename(parsed.v, config))
  ELSE <<>>

\* receiveEventFromOfficeOnline(event): the calls it makes
receiveEventFromOfficeOnline(event, now, startTs, config, frames) ==
  IF DataTruthy(event.data)
  THEN LET parsed == JSONparse(event.data.toks) IN
       IF parsed.threw THEN <<Throw("SyntaxError")>>
       ELSE Then(onAppLoadingStatus(parsed.v, now, startTs, config, frames),
                 onFileRename(parsed.v, config))
  ELSE <<>>

\* drawIframe(), with performance.now() in logLoadTime returning now
drawIframe(href, now, startTs, config) ==
  LET officeEditorFrame == getOfficeEditorFrameElement(href) IN
  IF officeEditorFrame.threw THEN <<Throw("URIError")>>
  ELSE <<AppendChild(officeEditorFrame.frame)>>
       \o logLoadTime(IFRAME_LOAD_TIME_EVENT, now, startTs, config)

\* postTokenToIframe()
postTokenToIframe == <<Submit>>

\* subscribeToEventsFromOfficeOnline()
subscribeToEventsFromOfficeOnline == <<On>>

\* init subscribing before it draws the frame and posts the token
init_subscribeFirst(href, first, later, config) ==
  Then(Then(Then(<<Now(first)>>,
                 subscribeToEventsFromOfficeOnline),
            drawIframe(href, later, first, config)),
       postTokenToIframe)

\* init(): performance.now() returns first at line 103 and later in drawIframe
init(href, first, later, config) ==
  Then(Then(Then(<<Now(first)>>,
                 drawIframe(href, later, first, config)),
            postTokenToIframe),
       subscribeToEventsFromOfficeOnline)

\* destroy leaving the subscription in place
destroy_noUnsubscribe == <<>>

\* destroy()
destroy == <<Off>>

\* ------------------------------------------------------------------------
\* What the calls leave behind
\* ------------------------------------------------------------------------
RECURSIVE Select(_, _)
\* The calls with the given op, in order
Select(calls, op) ==
  IF calls = <<>> THEN <<>>
  ELSE IF calls[1].op = op THEN <<calls[1]>> \o Select(Tail(calls), op)
  ELSE Select(Tail(calls), op)

\* document.title after the calls
TitleAfter(title, calls) ==
  LET w == Select(calls, "title") IN
  IF w = <<>> THEN title ELSE w[Len(w)].value

\* The frames in the container after the calls
FramesAfter(frames, calls) ==
  frames \o [i \in 1..Len(Select(calls, "appendChild")) |-> Select(calls, "appendChild")[i].frame]

\* The number of 'message' listeners after the calls: on adds the handler,
\* off removes it.
ListenersAfter(listeners, calls) ==
  IF Select(calls, "off") # <<>> THEN 0
  ELSE listeners + Len(Select(calls, "on"))

\* ------------------------------------------------------------------------
\* State
\* ------------------------------------------------------------------------
VARIABLES
  phase,      \* "created", "active", "failed" (init threw), "destroyed"
  clock,      \* the last value performance.now() returned
  startTs,    \* the module's startTs: <<>> until init assigns it, then <<t>>
  frames,     \* the frames appended to the frame holder
  listeners,  \* number of handlers subscribed to the window's 'message'
  title,      \* window.parent.document.title
  href,       \* window.location.href
  config,     \* what context.getConfig returns
  trace       \* the calls made so far, and the events dispatched

vars == <<phase, clock, startTs, frames, listeners, title, href, config, trace>>

\* The instants at which the clock is read.
Times == {0, SlowThreshold - 1, SlowThreshold, SlowThreshold + 1}

OfficeOrigin == "https://office.example"
OtherOrigin == "https://other.example"
Origins == {OfficeOrigin, OtherOrigin}

\* The module's configuration: an Excel file opened from the office origin
Configs ==
  {[serviceId |-> "svc", officeOnlineAppType |-> "excel", fileExtension |-> "xlsx",
    titleWithNoFilename |-> "Box for Office Online", origin |-> OfficeOrigin]}

Obj1(k, v) == <<Tok("{"), TStr(k), Tok(":")>> \o v \o <<Tok("}")>>
RenameText(n) ==
  <<Tok("{"), TStr("MessageId"), Tok(":"), TStr(FILE_RENAME_MESSAGE_ID), Tok(","),
    TStr("Values"), Tok(":")>> \o Obj1("NewName", <<TStr(n)>>) \o <<Tok("}")>>

\* The payloads of the events the browser dispatches
EmptyText == JText(<<>>)
MalformedText == JText(<<Tok("bad")>>)
NullText == JText(<<Tok("null")>>)
EmptyObjectText == JText(<<Tok("{"), Tok("}")>>)
OtherIdText == JText(Obj1("MessageId", <<TStr("App_Other")>>))
AppLoadingText == JText(Obj1("MessageId", <<TStr(APP_LOADING_STATUS_MESSAGE_ID)>>))
RenameNoValuesText == JText(Obj1("MessageId", <<TStr(FILE_RENAME_MESSAGE_ID)>>))
NewNames == {"Report", "Budget"}
Payloads ==
  { NoData, EmptyText, MalformedText, NullText, EmptyObjectText, OtherIdText,
    AppLoadingText, RenameNoValuesText }
  \cup {JText(RenameText(n)) : n \in NewNames}

Events == [data : Payloads, origin : Origins]

\* The page URLs of the main specification
K == "disableAllowSameOrigin"
Hrefs ==
  { <<"x", "?", K, "=", "x">>, <<"x", "?", K, "=", "%">> }

RECURSIVE SeqsUpTo(_, _)
\* All sequences over S of length at most n
SeqsUpTo(S, n) ==
  IF n = 0 THEN {<<>>}
  ELSE LET shorter == SeqsUpTo(S, n - 1) IN
       shorter \cup {Append(u, c) : u \in shorter, c \in S}

InitialTitle == "Box"

InitWith(urls, t0) ==
  /\ phase = "created"
  /\ clock = t0
  /\ startTs = <<>>
  /\ frames = <<>>
  /\ listeners = 0
  /\ title = InitialTitle
  /\ href \in urls
  /\ config \in Configs
  /\ trace = <<>>

Init == InitWith(Hrefs, 0)

\* ------------------------------------------------------------------------
\* Actions
\* ------------------------------------------------------------------------

\* The last value performance.now() returned, after the calls
ClockAfter(last, calls) ==
  LET r == Select(calls, "performance.now") IN
  IF r = <<>> THEN last ELSE r[Len(r)].value

\* The framework calls init().  performance.now() never goes back: it
\* returns first at line 103 and later when drawIframe logs.
InitModule ==
  /\ phase = "created"
  /\ \E first, later \in Times :
       /\ clock <= first /\ first <= later
       /\ LET calls == init(href, first, later, config) IN
            /\ clock' = ClockAfter(clock, calls)
            /\ phase' = IF Threw(calls) THEN "failed" ELSE "active"
            /\ frames' = FramesAfter(frames, calls)
            /\ listeners' = ListenersAfter(listeners, calls)
            /\ title' = TitleAfter(title, calls)
            /\ trace' = trace \o calls
       /\ startTs' = <<first>>
  /\ UNCHANGED <<href, config>>

\* The framework calls destroy().
DestroyModule ==
  /\ phase = "active"
  /\ phase' = "destroyed"
  /\ listeners' = ListenersAfter(listeners, destroy)
  /\ trace' = trace \o destroy
  /\ UNCHANGED <<clock, startTs, frames, title, href, config>>

Dispatched == Len(Select(trace, "dispatch"))

\* The browser dispatches a 'message' event; the subscribed listener runs,
\* and performance.now() returns now if the listener reads it.
Message ==
  /\ Dispatched < MaxMsgs
  /\ \E event \in Events, now \in Times :
       /\ clock <= now
       /\ LET calls ==
                IF listeners > 0
                THEN <<Invoke(event)>>
                     \o receiveEventFromOfficeOnline(event, now, startTs[1], config, frames)
                ELSE <<>>
          IN /\ clock' = ClockAfter(clock, calls)
             /\ title' = TitleAfter(title, calls)
             /\ trace' = trace \o <<Dispatch>> \o calls
  /\ UNCHANGED <<phase, startTs, frames, listeners, href, config>>

Next == InitModule \/ DestroyModule \/ Message

Spec == Init /\ [][Next]_vars

\* The frame specification: init() on every page URL of at most MaxUrlLen
\* symbols, with the clock at its last instant.
InitFrame == InitWith(SeqsUpTo(UrlAlphabet, MaxUrlLen), SlowThreshold + 1)

NextFrame == InitModule

SpecFrame == InitFrame /\ [][NextFrame]_vars

\* ------------------------------------------------------------------------
\* Reading the trace
\* ------------------------------------------------------------------------
Indices(op) == {i \in 1..Len(trace) : trace[i].op = op}
Min(S) == CHOOSE m \in S : \A n \in S : m <= n

\* The calls a handler invoked at index i made: what follows up to the next
\* dispatch, the next off, or the end of the trace.
Segment(i) ==
  LET stops == {k \in (i + 1)..Len(trace) : trace[k].op \in {"dispatch", "off"}}
  IN SubSeq(trace, i + 1, IF stops = {} THEN Len(trace) ELSE Min(stops) - 1)

Ops(calls) == [k \in 1..Len(calls) |-> calls[k].op]
InvokesOf(datas) == {i \in Indices("invoke") : trace[i].event.data \in datas}
RenameTexts == {JText(RenameText(n)) : n \in NewNames}

\* A record of the named milestone, slow or not
IsLog(call, name) == call.op = "sendLog" /\ call.params.event_name = name
\* The indices at which logLoadTime was entered: right after the frame is
\* appended, and right after a handler is invoked with App_LoadingStatus.
LogLoadTimeCalls ==
  {i + 1 : i \in Indices("appendChild") \cup InvokesOf({AppLoadingText})}
MilestoneAt(i) ==
  IF trace[i - 1].op = "appendChild" THEN IFRAME_LOAD_TIME_EVENT ELSE EDITOR_LOAD_TIME_EVENT

SandboxSet == {frames[1].sandbox[k] : k \in 1..Len(frames[1].sandbox)}
BasePermissions ==
  {"allow-scripts", "allow-forms", "allow-popups", "allow-top-navigation",
   "allow-popups-to-escape-sandbox", "allow-downloads"}

\* The page URL's query string holds the parameter: the query runs from the
\* first ? to the first # (a # before any ? means there is no query), its
\* fields are separated by &, and a field's name ends at its first =.
QueryHasParam(url) ==
  \E q \in 1..Len(url) :
    /\ url[q] = "?"
    /\ \A k \in 1..(q - 1) : url[k] \notin {"?", "#"}
    /\ \E i \in q..Len(url) :
         /\ i = q \/ url[i] = "&"
         /\ \A k \in q..i : url[k] # "#"
         /\ i + 1 <= Len(url) /\ url[i + 1] = K
         /\ (i + 2 > Len(url) \/ url[i + 2] \in {"=", "&", "#"})

Occurrences(url) ==
  {i \in 1..Len(url) :
     /\ url[i] \in {"?", "&"}
     /\ i + 1 <= Len(url) /\ url[i + 1] = K
     /\ (i + 2 > Len(url) \/ url[i + 2] \in {"=", "&", "#"})}
\* The value of the first occurrence: what follows its = up to the next &
\* or #; empty for a bare key
FirstValue(url) ==
  LET i == Min(Occurrences(url))
      stops == {k \in (i + 3)..Len(url) : url[k] \in {"&", "#"}}
  IN IF i + 2 <= Len(url) /\ url[i + 2] = "="
     THEN SubSeq(url, i + 3, IF stops = {} THEN Len(url) ELSE Min(stops) - 1)
     ELSE <<>>
HasStrayPercent(v) == \E k \in 1..Len(v) : v[k] = "%"

HasOp(calls, op) == \E k \in 1..Len(calls) : calls[k].op = op

C3_Dispatch ==
  /\ \A i \in InvokesOf({AppLoadingText}) :
       /\ HasOp(Segment(i), "sendLog") /\ HasOp(Segment(i), "postMessage")
       /\ ~HasOp(Segment(i), "title") /\ ~HasOp(Segment(i), "throw")
  /\ \A i \in InvokesOf(RenameTexts) : Ops(Segment(i)) = <<"title">>
  /\ \A i \in InvokesOf({RenameNoValuesText}) :
       Segment(i) = <<Throw("TypeError")>>
  /\ \A i \in InvokesOf({OtherIdText, EmptyObjectText}) : Segment(i) = <<>>
  /\ title \in {InitialTitle} \cup
       {trace[j].value : j \in {k \in Indices("title") :
                                  \E i \in InvokesOf(RenameTexts) : k = i + 1}}

\* Handlers ran for an App_LoadingStatus, for a File_Rename and for an
\* unrecognised MessageId.
C3_Witness ==
  /\ Dispatched = 2
  /\ InvokesOf({OtherIdText}) # {}
  /\ InvokesOf({AppLoadingText}) \cup InvokesOf(RenameTexts) # {}

\* ------------------------------------------------------------------------
\* C4.  Once destroy() has run no step invokes the handler, and a handler
\* is only ever invoked while init's subscription is in place: after the on
\* and before any off.
\* ------------------------------------------------------------------------
C4_NoHandlerAfterDestroy ==
  [][/\ phase = "destroyed" => /\ Indices("invoke")' = Indices("invoke")
                               /\ listeners = 0
     /\ \A i \in Indices("invoke")' \ Indices("invoke") :
          /\ phase = "active"
          /\ \E j \in Indices("on") : j < i
          /\ \A k \in Indices("off")' : i < k]_vars

\* A message was dispatched after destroy.
C4_Witness ==
  /\ phase = "destroyed"
  /\ \E k \in Indices("off"), d \in Indices("dispatch") : k < d
  /\ Indices("invoke") # {}

\* ------------------------------------------------------------------------
\* C5.  startTs is the instant init read first, every load_time is the
\* instant of its own reading minus that startTs, and every EDITOR_LOAD_TIME
\* load_time is at least the IFRAME_LOAD_TIME load_time.
\* ------------------------------------------------------------------------
C5_EditorAfterIframe ==
  /\ Indices("performance.now") # {} =>
       startTs = <<trace[Min(Indices("performance.now"))].value>>
  /\ \A i \in Indices("sendLog") :
       \E r \in {i - 1, i - 2} :
         /\ r >= 1 /\ trace[r].op = "performance.now"
         /\ trace[i].params.load_time = trace[r].value - startTs[1]
  /\ \A e, f \in Indices("sendLog") :
       /\ trace[e].params.event_name = EDITOR_LOAD_TIME_EVENT
       /\ trace[f].params.event_name = IFRAME_LOAD_TIME_EVENT
       => trace[e].params.load_time >= trace[f].params.load_time

\* Both milestones were reported, the editor strictly later than the frame,
\* by a module started after the page's time origin.
C5_Witness ==
  /\ startTs # <<>> /\ startTs[1] > 0
  /\ \E e, f \in Indices("sendLog") :
       /\ trace[e].params.event_name = EDITOR_LOAD_TIME_EVENT
       /\ trace[f].params.event_name = IFRAME_LOAD_TIME_EVENT
       /\ trace[e].params.load_time > trace[f].params.load_time

\* ------------------------------------------------------------------------
\* C6.  A handler invoked with App_LoadingStatus reads the clock, hands over
\* the EDITOR_LOAD_TIME record (and its slow twin, if any) and then posts
\* exactly one message, to the configured origin, that parses to MessageId
\* Host_PostmessageReady and an empty Values; nothing else is ever posted,
\* so the posts are as many as the App_LoadingStatus messages handled.
\* ------------------------------------------------------------------------
IsReady(call) ==
  /\ call.op = "postMessage"
  /\ call.targetOrigin = config.origin
  /\ LET m == JSONparse(call.message) IN
       /\ ~m.threw
       /\ Get(m.v, "MessageId") = JString("Host_PostmessageReady")
       /\ Get(m.v, "Values") = JObject(<<>>)

C6_ReadyAfterRecord ==
  /\ \A i \in InvokesOf({AppLoadingText}) :
       LET seg == Segment(i) IN
       /\ Len(seg) \in {3, 4}
       /\ seg[1].op = "performance.now"
       /\ IsLog(seg[2], EDITOR_LOAD_TIME_EVENT)
       /\ Len(seg) = 4 => IsLog(seg[3], "EDITOR_LOAD_TIME_slow")
       /\ IsReady(seg[Len(seg)])
  /\ \A p \in Indices("postMessage") :
       \E i \in InvokesOf({AppLoadingText}) :
         i < p /\ p <= i + Len(Segment(i))
  /\ Cardinality(Indices("postMessage")) = Cardinality(InvokesOf({AppLoadingText}))

\* Two App_LoadingStatus messages were handled, one of them slow.
C6_Witness ==
  /\ Cardinality(InvokesOf({AppLoadingText})) = 2
  /\ \E i \in InvokesOf({AppLoadingText}) : Len(Segment(i)) = 4
  /\ Cardinality(Indices("postMessage")) = 2

\* ------------------------------------------------------------------------
\* C7.  A handler invoked with File_Rename and Values.NewName = n writes the
\* title "n.e on w", e the configured fileExtension and w the configured
\* titleWithNoFilename (Report and xlsx give "Report.xlsx on ..."); and the
\* document's title is always the one written for the most recent such
\* message, whatever else was delivered before or after it, and the initial
\* title while there has been none.
\* ------------------------------------------------------------------------
NewNameOf(i) == CHOOSE n \in NewNames : trace[i].event.data = JText(RenameText(n))
ExpectedTitle(n) ==
  n \o "." \o config.fileExtension \o " on " \o config.titleWithNoFilename
Max(S) == CHOOSE m \in S : \A n \in S : m >= n

C7_TitleOfLastRename ==
  /\ \A i \in InvokesOf(RenameTexts) :
       Segment(i) = <<SetTitle(ExpectedTitle(NewNameOf(i)))>>
  /\ \A i \in InvokesOf({JText(RenameText("Report"))}) :
       config.fileExtension = "xlsx" =>
         trace[i + 1] = SetTitle("Report.xlsx on Box for Office Online")
  /\ title = IF InvokesOf(RenameTexts) = {} THEN InitialTitle
             ELSE ExpectedTitle(NewNameOf(Max(InvokesOf(RenameTexts))))

\* Report was renamed to with extension xlsx, and an App_LoadingStatus was
\* handled after it.
C7_Witness ==
  /\ config.fileExtension = "xlsx"
  /\ title = "Report.xlsx on Box for Office Online"
  /\ \E i \in InvokesOf(RenameTexts), j \in InvokesOf({AppLoadingText}) : i < j

\* ------------------------------------------------------------------------
\* C8.  An init that completes makes its calls in this order: the reading
\* that becomes startTs, the insertion of the frame, the reading and the
\* record(s) of IFRAME_LOAD_TIME, the form's submit, the subscription.  So
\* the IFRAME_LOAD_TIME record precedes every EDITOR_LOAD_TIME record, and
\* every handler invocation comes after the frame is in place and the form
\* submitted.
\* ------------------------------------------------------------------------
LogsOf(name) == {i \in Indices("sendLog") : trace[i].params.event_name = name}

C8_InitOrder ==
  /\ phase \in {"active", "destroyed"} =>
       \E a \in Indices("performance.now") :
         LET slow == trace[a + 2].value - trace[a].value >= 10000
             b == a + (IF slow THEN 5 ELSE 4)
         IN /\ a = Min(Indices("performance.now"))
            /\ startTs = <<trace[a].value>>
            /\ b + 1 <= Len(trace)
            /\ Indices("appendChild") = {a + 1}
            /\ trace[a + 2].op = "performance.now"
            /\ LogsOf(IFRAME_LOAD_TIME_EVENT) = {a + 3}
            /\ slow => IsLog(trace[a + 4], "IFRAME_LOAD_TIME_slow")
            /\ Indices("submit") = {b}
            /\ Indices("on") = {b + 1}
            /\ frames = <<trace[a + 1].frame>>
            /\ \A e \in LogsOf(EDITOR_LOAD_TIME_EVENT) : a + 3 < e
            /\ \A i \in Indices("invoke") : b + 1 < i
  /\ phase \in {"created", "failed"} =>
       Indices("invoke") = {} /\ Indices("on") = {} /\ Indices("submit") = {}

\* A message was dispatched before init, a handler ran after it, and the
\* frame's own milestone was slow.
C8_Witness ==
  /\ trace # <<>> /\ trace[1].op = "dispatch"
  /\ LogsOf("IFRAME_LOAD_TIME_slow") # {}
  /\ LogsOf(EDITOR_LOAD_TIME_EVENT) # {}

\* ------------------------------------------------------------------------
\* C9.  A handler invoked with a non-empty payload that is not JSON ends in
\* an uncaught SyntaxError having made no other call; the subscription stays
\* in place, so the messages after it are handled as usual; a handler invoked
\* with no payload or an empty one makes no call and raises nothing.
\* ------------------------------------------------------------------------
C9_MalformedPayload ==
  /\ \A i \in InvokesOf({MalformedText}) : Segment(i) = <<Throw("SyntaxError")>>
  /\ \A i \in InvokesOf({NoData, EmptyText}) : Segment(i) = <<>>
  /\ phase = "active" => listeners = 1
  /\ \A i \in InvokesOf({MalformedText}) :
       /\ \A j \in InvokesOf({AppLoadingText}) : j > i => HasOp(Segment(j), "postMessage")
       /\ \A j \in InvokesOf(RenameTexts) : j > i => HasOp(Segment(j), "title")
  /\ Indices("throw") \subseteq
       {i + 1 : i \in InvokesOf({MalformedText, RenameNoValuesText})}
       \cup {k \in 1..Len(trace) : phase = "failed"}

\* A malformed message was handled, and a well-formed one after it.
C9_Witness ==
  \E i \in InvokesOf({MalformedText}), j \in InvokesOf({AppLoadingText}) :
    i < j /\ HasOp(Segment(j), "postMessage") /\ phase = "active"

\* ------------------------------------------------------------------------
\* C10.  The handler's calls do not depend on the sender's origin: any two
\* invocations with the same payload, whatever their origins, make the same
\* calls (for App_LoadingStatus: when the clock reads the same); an
\* App_LoadingStatus from any origin is answered with the record and the
\* ready message, a File_Rename from any origin rewrites the title; and every
\* message the module posts is addressed to the configured origin.
\* ------------------------------------------------------------------------
SameReading(i, j) ==
  /\ Segment(i) # <<>> /\ Segment(j) # <<>>
  /\ Segment(i)[1] = Segment(j)[1]

C10_OriginIgnored ==
  /\ \A i \in InvokesOf({AppLoadingText}) :
       HasOp(Segment(i), "sendLog") /\ HasOp(Segment(i), "postMessage")
  /\ \A i \in InvokesOf(RenameTexts) :
       HasOp(Segment(i), "title") /\ title # InitialTitle
  /\ \A i, j \in Indices("invoke") :
       /\ trace[i].event.data = trace[j].event.data
       /\ trace[i].event.data = AppLoadingText => SameReading(i, j)
       => Segment(i) = Segment(j)
  /\ \A p \in Indices("postMessage") : trace[p].targetOrigin = config.origin

\* The same App_LoadingStatus was handled from the configured origin and from
\* another one, and answered both times.
C10_Witness ==
  \E i, j \in InvokesOf({AppLoadingText}) :
    /\ trace[i].event.origin = config.origin
    /\ trace[j].event.origin # config.origin
    /\ SameReading(i, j)
    /\ HasOp(Segment(j), "postMessage")

====
